---- MODULE Spec2Model ----
(***************************************************************************)
(* GpuStats (services/gpuservice/gpustats/GpuStats.cpp): the two           *)
(* aggregation tables mGlobalStats and mAppStats and the three public      *)
(* operations insert, dump and pullGlobalStats.  Every public operation    *)
(* runs under std::lock_guard on mLock: Spec, SpecDump and SpecCap take    *)
(* each call as a single step, SpecThreads and SpecFair run the calls of   *)
(* several threads statement by statement with mLock between them.         *)
(***************************************************************************)
EXTENDS Integers, Sequences, FiniteSets, TLC

VARIABLES
    mGlobalStats,   \* std::unordered_map<uint64_t, GpuStatsGlobalInfo>
    mAppStats,      \* std::unordered_map<std::string, GpuStatsAppInfo>
    call,           \* the last call made and its arguments
    ret,            \* what that call wrote to its output argument
    pre,            \* history: both tables as they were when that call started
    tally,          \* history: supported inserts per driverVersionCode since
                    \* the global table was last emptied
    nCalls,         \* history: number of calls made so far
    mLock,          \* std::mutex mLock: Free or the thread that holds it
    pc,             \* per thread: the statement it is at, "idle" between calls
    frame,          \* per thread: the arguments and locals of its call
    acct            \* history: supported inserts returned and records handed
                    \* out by pulls, per driverVersionCode, since the global
                    \* table was last cleared by a dump

vars == <<mGlobalStats, mAppStats, call, ret, pre, tally, nCalls,
          mLock, pc, frame, acct>>

\* The variables of the threads, which the one-step calls leave alone.
threadVars == <<mLock, pc, frame, acct>>

----------------------------------------------------------------------------
(* Bounds of the model. *)

\* Number of calls in a behaviour of Spec.
MaxCalls == 2

\* Number of calls in a behaviour of SpecDump.
MaxDumpCalls == 3

\* Capacity of the app table (GpuStats.h sets 100; scaled down here).
MAX_NUM_APP_RECORDS == 2

\* Longest argument vector handed to dump in which flags repeat or change
\* places.
MaxArgs == 2

----------------------------------------------------------------------------
(* Input domains. *)

\* GraphicsEnv::Driver values handed to insert: the four supported ones and
\* one that falls to the default branch.
Drivers == {"GL", "GL_UPDATED", "VULKAN", "VULKAN_UPDATED", "ANGLE"}

\* (driverPackageName, driverVersionName, driverBuildTime) triples
DriverIdents ==
    { [driverPackageName |-> "drv", driverVersionName |-> "1.0", driverBuildTime |-> 1000],
      [driverPackageName |-> "upd", driverVersionName |-> "2.0", driverBuildTime |-> 2000] }

VersionCodes == {2, 12}

AppNames == {"a", "a1"}

LoadingTimes == {12, 30}

Flags == {"--global", "--app", "--clear"}

\* Every set of flags, written once in a fixed order.
FlagSetVectors ==
    { <<>>, <<"--global">>, <<"--app">>, <<"--clear">>,
      <<"--global", "--app">>, <<"--global", "--clear">>, <<"--app", "--clear">>,
      <<"--global", "--app", "--clear">> }

\* The same, and every vector of up to MaxArgs flags (these repeat flags and
\* change their order).
ArgVectors == FlagSetVectors \cup UNION { [1..n -> Flags] : n \in 0..MaxArgs }

Range(s) == { s[i] : i \in DOMAIN s }

\* The orders in which a range-for may visit the keys of an unordered_map:
\* the standard leaves the iteration order unspecified.
IterationOrders(m) ==
    { p \in [1..Cardinality(DOMAIN m) -> DOMAIN m] : Range(p) = DOMAIN m }

EmptyMap == [k \in {} |-> 0]

----------------------------------------------------------------------------
(* std::to_string(uint64_t): decimal digits, most significant first. *)

Digits == <<"0", "1", "2", "3", "4", "5", "6", "7", "8", "9">>

RECURSIVE to_string(_)
to_string(n) ==
    IF n < 10 THEN Digits[n + 1]
    ELSE to_string(n \div 10) \o Digits[(n % 10) + 1]

\* const std::string appStatsKey = appPackageName + std::to_string(driverVersionCode);
appStatsKey(appPackageName, driverVersionCode) ==
    appPackageName \o to_string(driverVersionCode)

----------------------------------------------------------------------------
(* Records. *)

\* GpuStatsGlobalInfo globalInfo;  (default-constructed)
NewGlobalInfo ==
    [ driverPackageName     |-> "",
      driverVersionName     |-> "",
      driverVersionCode     |-> 0,
      driverBuildTime       |-> 0,
      glLoadingCount        |-> 0,
      glLoadingFailureCount |-> 0,
      vkLoadingCount        |-> 0,
      vkLoadingFailureCount |-> 0 ]

\* GpuStatsAppInfo appInfo;  (default-constructed)
NewAppInfo ==
    [ appPackageName      |-> "",
      driverVersionCode   |-> 0,
      glDriverLoadingTime |-> <<>>,
      vkDriverLoadingTime |-> <<>> ]

IsGL(driver) == driver \in {"GL", "GL_UPDATED"}
IsVulkan(driver) == driver \in {"VULKAN", "VULKAN_UPDATED"}

\* addLoadingCount with the default branch returning true.
addLoadingCount_defaultAccepts(driver, isDriverLoaded, info) ==
    CASE IsGL(driver) ->
           [ ok   |-> TRUE,
             info |-> [info EXCEPT
                         !.glLoadingCount = @ + 1,
                         !.glLoadingFailureCount = IF ~isDriverLoaded THEN @ + 1 ELSE @] ]
      [] IsVulkan(driver) ->
           [ ok   |-> TRUE,
             info |-> [info EXCEPT
                         !.vkLoadingCount = @ + 1,
                         !.vkLoadingFailureCount = IF ~isDriverLoaded THEN @ + 1 ELSE @] ]
      [] OTHER ->
           [ ok |-> TRUE, info |-> info ]

\* addLoadingCount with the failure test inverted.
addLoadingCount_countsLoaded(driver, isDriverLoaded, info) ==
    CASE IsGL(driver) ->
           [ ok   |-> TRUE,
             info |-> [info EXCEPT
                         !.glLoadingCount = @ + 1,
                         !.glLoadingFailureCount = IF isDriverLoaded THEN @ + 1 ELSE @] ]
      [] IsVulkan(driver) ->
           [ ok   |-> TRUE,
             info |-> [info EXCEPT
                         !.vkLoadingCount = @ + 1,
                         !.vkLoadingFailureCount = IF isDriverLoaded THEN @ + 1 ELSE @] ]
      [] OTHER ->
           [ ok |-> FALSE, info |-> info ]

\* addLoadingCount counting a failed load as a failure only.
addLoadingCount_failureOnly(driver, isDriverLoaded, info) ==
    CASE IsGL(driver) ->
           [ ok   |-> TRUE,
             info |-> IF isDriverLoaded
                      THEN [info EXCEPT !.glLoadingCount = @ + 1]
                      ELSE [info EXCEPT !.glLoadingFailureCount = @ + 1] ]
      [] IsVulkan(driver) ->
           [ ok   |-> TRUE,
             info |-> IF isDriverLoaded
                      THEN [info EXCEPT !.vkLoadingCount = @ + 1]
                      ELSE [info EXCEPT !.vkLoadingFailureCount = @ + 1] ]
      [] OTHER ->
           [ ok |-> FALSE, info |-> info ]

\* static bool addLoadingCount(driver, isDriverLoaded, outGlobalInfo):
\* the returned flag and the record as it leaves the function.
addLoadingCount(driver, isDriverLoaded, info) ==
    CASE IsGL(driver) ->
           [ ok   |-> TRUE,
             info |-> [info EXCEPT
                         !.glLoadingCount = @ + 1,
                         !.glLoadingFailureCount = IF ~isDriverLoaded THEN @ + 1 ELSE @] ]
      [] IsVulkan(driver) ->
           [ ok   |-> TRUE,
             info |-> [info EXCEPT
                         !.vkLoadingCount = @ + 1,
                         !.vkLoadingFailureCount = IF ~isDriverLoaded THEN @ + 1 ELSE @] ]
      [] OTHER ->
           [ ok |-> FALSE, info |-> info ]

\* static void addLoadingTime(driver, driverLoadingTime, outAppInfo)
addLoadingTime(driver, driverLoadingTime, info) ==
    CASE IsGL(driver) ->
           [info EXCEPT !.glDriverLoadingTime = Append(@, driverLoadingTime)]
      [] IsVulkan(driver) ->
           [info EXCEPT !.vkDriverLoadingTime = Append(@, driverLoadingTime)]
      [] OTHER -> info

\* m with key k bound to v (std::unordered_map::insert of a new key, or
\* assignment through operator[] of an existing one).
Put(m, k, v) == [x \in (DOMAIN m) \cup {k} |-> IF x = k THEN v ELSE m[x]]

----------------------------------------------------------------------------
(* GpuStats::insert *)

\* The global step storing the identity arguments on every insert.
insertGlobal_lastWriterWins(g, ident, driverVersionCode, driver, isDriverLoaded) ==
    LET old == IF driverVersionCode \in DOMAIN g THEN g[driverVersionCode] ELSE NewGlobalInfo
        r   == addLoadingCount(driver, isDriverLoaded, old)
    IN  IF ~r.ok
        THEN [ok |-> FALSE, g |-> g]
        ELSE [ok |-> TRUE,
              g  |-> Put(g, driverVersionCode,
                         [r.info EXCEPT
                            !.driverPackageName = ident.driverPackageName,
                            !.driverVersionName = ident.driverVersionName,
                            !.driverVersionCode = driverVersionCode,
                            !.driverBuildTime   = ident.driverBuildTime])]

\* Lines 86-98: the global table after the global step, and whether insert
\* goes on to the app table.
insertGlobal(g, ident, driverVersionCode, driver, isDriverLoaded) ==
    IF driverVersionCode \notin DOMAIN g
    THEN LET r == addLoadingCount(driver, isDriverLoaded, NewGlobalInfo)
         IN  IF ~r.ok
             THEN [ok |-> FALSE, g |-> g]
             ELSE [ok |-> TRUE,
                   g  |-> Put(g, driverVersionCode,
                              [r.info EXCEPT
                                 !.driverPackageName = ident.driverPackageName,
                                 !.driverVersionName = ident.driverVersionName,
                                 !.driverVersionCode = driverVersionCode,
                                 !.driverBuildTime   = ident.driverBuildTime])]
    ELSE LET r == addLoadingCount(driver, isDriverLoaded, g[driverVersionCode])
         IN  IF ~r.ok
             THEN [ok |-> FALSE, g |-> Put(g, driverVersionCode, r.info)]
             ELSE [ok |-> TRUE,  g |-> Put(g, driverVersionCode, r.info)]

\* The capacity check left out.
appTableFull_never(a) == FALSE

\* The capacity check with > in place of >=.
appTableFull_offByOne(a) == Cardinality(DOMAIN a) > MAX_NUM_APP_RECORDS

\* Lines 100-103: the capacity check that ends insert before the app step.
appTableFull(a) == Cardinality(DOMAIN a) >= MAX_NUM_APP_RECORDS

\* The app step storing a new record also when the key is present.
insertApp_overwrites(a, appPackageName, driverVersionCode, driver, driverLoadingTime) ==
    IF appTableFull(a) THEN a
    ELSE Put(a, appStatsKey(appPackageName, driverVersionCode),
             [addLoadingTime(driver, driverLoadingTime, NewAppInfo) EXCEPT
                !.appPackageName    = appPackageName,
                !.driverVersionCode = driverVersionCode])

\* Lines 100-115: the app table after the app step.
insertApp(a, appPackageName, driverVersionCode, driver, driverLoadingTime) ==
    IF appTableFull(a) THEN a
    ELSE LET key == appStatsKey(appPackageName, driverVersionCode)
         IN  IF key \notin DOMAIN a
             THEN Put(a, key,
                      [addLoadingTime(driver, driverLoadingTime, NewAppInfo) EXCEPT
                         !.appPackageName    = appPackageName,
                         !.driverVersionCode = driverVersionCode])
             ELSE Put(a, key, addLoadingTime(driver, driverLoadingTime, a[key]))

ZeroTally == [gl |-> 0, glFail |-> 0, vk |-> 0, vkFail |-> 0]

\* History only: one more supported insert counted for driverVersionCode.
Count(t, driverVersionCode, driver, isDriverLoaded) ==
    LET old == IF driverVersionCode \in DOMAIN t THEN t[driverVersionCode] ELSE ZeroTally
    IN  CASE IsGL(driver) ->
               Put(t, driverVersionCode,
                   [old EXCEPT !.gl = @ + 1,
                               !.glFail = IF ~isDriverLoaded THEN @ + 1 ELSE @])
          [] IsVulkan(driver) ->
               Put(t, driverVersionCode,
                   [old EXCEPT !.vk = @ + 1,
                               !.vkFail = IF ~isDriverLoaded THEN @ + 1 ELSE @])
          [] OTHER -> t

\* History only: the calls after which the count of inserts starts again,
\* a dump whose flags ask for the global table to be cleared.
ClearsGlobal(args) ==
    /\ "--clear" \in Range(args)
    /\ "--global" \in Range(args) \/ "--app" \notin Range(args)

Insert(ident, driverVersionCode, appPackageName, driver, isDriverLoaded, driverLoadingTime) ==
    LET gs == insertGlobal(mGlobalStats, ident, driverVersionCode, driver, isDriverLoaded)
        as == IF gs.ok
              THEN insertApp(mAppStats, appPackageName, driverVersionCode,
                             driver, driverLoadingTime)
              ELSE mAppStats
    IN  /\ mGlobalStats' = gs.g
        /\ mAppStats' = as
        /\ call' = [ op                |-> "insert",
                     driverPackageName |-> ident.driverPackageName,
                     driverVersionName |-> ident.driverVersionName,
                     driverVersionCode |-> driverVersionCode,
                     driverBuildTime   |-> ident.driverBuildTime,
                     appPackageName    |-> appPackageName,
                     driver            |-> driver,
                     isDriverLoaded    |-> isDriverLoaded,
                     driverLoadingTime |-> driverLoadingTime ]
        /\ ret' = <<>>
        /\ pre' = [g |-> mGlobalStats, a |-> mAppStats]
        /\ tally' = Count(tally, driverVersionCode, driver, isDriverLoaded)
        /\ nCalls' = nCalls + 1
        /\ UNCHANGED threadVars

----------------------------------------------------------------------------
(* GpuStats::dump.  A report is a sequence of lines, one per record. *)

\* GpuStatsGlobalInfo::toString(): the fields in the order they are printed.
GlobalInfoToString(info) ==
    << "global", info.driverPackageName, info.driverVersionName, info.driverVersionCode,
       info.driverBuildTime, info.glLoadingCount, info.glLoadingFailureCount,
       info.vkLoadingCount, info.vkLoadingFailureCount >>

\* GpuStatsAppInfo::toString(): the fields in the order they are printed.
AppInfoToString(info) ==
    << "app", info.appPackageName, info.driverVersionCode,
       info.glDriverLoadingTime, info.vkDriverLoadingTime >>

\* void GpuStats::dumpGlobalLocked(std::string* result)
dumpGlobalLocked(result, g, gOrder) ==
    result \o [i \in 1..Len(gOrder) |-> GlobalInfoToString(g[gOrder[i]])]

\* void GpuStats::dumpAppLocked(std::string* result)
dumpAppLocked(result, a, aOrder) ==
    result \o [i \in 1..Len(aOrder) |-> AppInfoToString(a[aOrder[i]])]

\* The --clear block with the --app branch clearing the global table too.
clearTables_appClearsGlobal(clear, dumpGlobal, dumpApp, g, a) ==
    IF ~clear THEN [g |-> g, a |-> a]
    ELSE LET g1       == IF dumpGlobal \/ dumpApp THEN EmptyMap ELSE g
             a1       == IF dumpApp THEN EmptyMap ELSE a
             clearAll == ~dumpGlobal /\ ~dumpApp
         IN  [ g |-> IF clearAll THEN EmptyMap ELSE g1,
               a |-> IF clearAll THEN EmptyMap ELSE a1 ]

\* Lines 146-165: the tables after the --clear block.
clearTables(clear, dumpGlobal, dumpApp, g, a) ==
    IF ~clear THEN [g |-> g, a |-> a]
    ELSE LET g1       == IF dumpGlobal THEN EmptyMap ELSE g
             a1       == IF dumpApp THEN EmptyMap ELSE a
             clearAll == ~dumpGlobal /\ ~dumpApp
         IN  [ g |-> IF clearAll THEN EmptyMap ELSE g1,
               a |-> IF clearAll THEN EmptyMap ELSE a1 ]

\* The keys of order that m still holds, in the same order (what is left of
\* an iteration order after clear()).
RECURSIVE Remaining(_, _)
Remaining(order, m) ==
    IF order = <<>> THEN <<>>
    ELSE IF Head(order) \in DOMAIN m
         THEN <<Head(order)>> \o Remaining(Tail(order), m)
         ELSE Remaining(Tail(order), m)

\* dump with the dump-all block placed before the --clear block and not
\* switched off by --clear.
dumpLocked_dumpAllBeforeClear(args, result, g, gOrder, a, aOrder) ==
    LET argsSet    == Range(args)
        dumpGlobal == "--global" \in argsSet
        r1         == IF dumpGlobal THEN dumpGlobalLocked(result, g, gOrder) ELSE result
        dumpApp    == "--app" \in argsSet
        r2         == IF dumpApp THEN dumpAppLocked(r1, a, aOrder) ELSE r1
        dumpAll    == ~dumpGlobal /\ ~dumpApp
        r3         == IF dumpAll
                      THEN dumpAppLocked(dumpGlobalLocked(r2, g, gOrder), a, aOrder)
                      ELSE r2
        clear      == "--clear" \in argsSet
        t          == clearTables(clear, dumpGlobal, dumpApp, g, a)
    IN  [result |-> r3, g |-> t.g, a |-> t.a]

\* The text of a dump that walks the argument vector and dumps a table at
\* each selector it meets.
RECURSIVE dumpEach(_, _, _, _, _, _)
dumpEach(args, result, g, gOrder, a, aOrder) ==
    IF args = <<>> THEN result
    ELSE LET r == CASE Head(args) = "--global" -> dumpGlobalLocked(result, g, gOrder)
                    [] Head(args) = "--app"    -> dumpAppLocked(result, a, aOrder)
                    [] OTHER                   -> result
         IN  dumpEach(Tail(args), r, g, gOrder, a, aOrder)

\* dump working on the argument vector instead of the set of its elements.
dumpLocked_perArgument(args, result, g, gOrder, a, aOrder) ==
    LET argsSet    == Range(args)
        dumpGlobal == "--global" \in argsSet
        dumpApp    == "--app" \in argsSet
        r2         == dumpEach(args, result, g, gOrder, a, aOrder)
        clear      == "--clear" \in argsSet
        t          == clearTables(clear, dumpGlobal, dumpApp, g, a)
        dumpAll    == ~dumpGlobal /\ ~dumpApp /\ ~clear
        r3         == IF dumpAll
                      THEN dumpAppLocked(
                               dumpGlobalLocked(r2, t.g, Remaining(gOrder, t.g)),
                               t.a, Remaining(aOrder, t.a))
                      ELSE r2
    IN  [result |-> r3, g |-> t.g, a |-> t.a]

\* Lines 127-170, in statement order: the string and the tables as they are
\* when dump returns.  gOrder and aOrder are the orders in which the two
\* tables are iterated.
dumpLocked(args, result, g, gOrder, a, aOrder) ==
    LET argsSet    == Range(args)
        dumpGlobal == "--global" \in argsSet
        r1         == IF dumpGlobal THEN dumpGlobalLocked(result, g, gOrder) ELSE result
        dumpApp    == "--app" \in argsSet
        r2         == IF dumpApp THEN dumpAppLocked(r1, a, aOrder) ELSE r1
        clear      == "--clear" \in argsSet
        t          == clearTables(clear, dumpGlobal, dumpApp, g, a)
        dumpAll    == ~dumpGlobal /\ ~dumpApp /\ ~clear
        r3         == IF dumpAll
                      THEN dumpAppLocked(
                               dumpGlobalLocked(r2, t.g, Remaining(gOrder, t.g)),
                               t.a, Remaining(aOrder, t.a))
                      ELSE r2
    IN  [result |-> r3, g |-> t.g, a |-> t.a]

\* The std::string* handed in as result: nullptr, a fresh string, or a string
\* that already holds a line of text.
NullResult == [null |-> TRUE, text |-> <<>>]

ResultArgs == { NullResult,
                [null |-> FALSE, text |-> <<>>],
                [null |-> FALSE, text |-> << <<"header">> >>] }

Dump(args, result) ==
    /\ call' = [op |-> "dump", args |-> args, result |-> result]
    /\ pre' = [g |-> mGlobalStats, a |-> mAppStats]
    /\ nCalls' = nCalls + 1
    /\ UNCHANGED threadVars
    /\ IF result.null
       THEN /\ ret' = <<>>
            /\ UNCHANGED <<mGlobalStats, mAppStats, tally>>
       ELSE \E gOrder \in IterationOrders(mGlobalStats), aOrder \in IterationOrders(mAppStats) :
              LET d == dumpLocked(args, result.text, mGlobalStats, gOrder, mAppStats, aOrder)
              IN  /\ ret' = d.result
                  /\ mGlobalStats' = d.g
                  /\ mAppStats' = d.a
                  /\ tally' = IF ClearsGlobal(args) THEN EmptyMap ELSE tally

----------------------------------------------------------------------------
(* GpuStats::pullGlobalStats *)

\* The copy loop without outStats->clear() before it.
pullCopy_keepsOld(outStats, g, gOrder) ==
    outStats \o [i \in 1..Len(gOrder) |-> g[gOrder[i]]]

\* Lines 191-196: the vector after clear(), reserve() and the copy loop.
pullCopy(outStats, g, gOrder) ==
    [i \in 1..Len(gOrder) |-> g[gOrder[i]]]

\* A record left in the caller's vector by an earlier use.
StaleInfo == [NewGlobalInfo EXCEPT !.driverPackageName = "stale", !.glLoadingCount = 7]

OutVectors == { <<>>, <<StaleInfo>> }

\* pullGlobalStats clearing both tables.
PullGlobalStats_clearsApp(outStats) ==
    /\ call' = [op |-> "pullGlobalStats", outStats |-> outStats]
    /\ pre' = [g |-> mGlobalStats, a |-> mAppStats]
    /\ nCalls' = nCalls + 1
    /\ UNCHANGED threadVars
    /\ \E gOrder \in IterationOrders(mGlobalStats) :
          ret' = pullCopy(outStats, mGlobalStats, gOrder)
    /\ mGlobalStats' = EmptyMap
    /\ tally' = EmptyMap
    /\ mAppStats' = EmptyMap

PullGlobalStats(outStats) ==
    /\ call' = [op |-> "pullGlobalStats", outStats |-> outStats]
    /\ pre' = [g |-> mGlobalStats, a |-> mAppStats]
    /\ nCalls' = nCalls + 1
    /\ UNCHANGED threadVars
    /\ \E gOrder \in IterationOrders(mGlobalStats) :
          ret' = pullCopy(outStats, mGlobalStats, gOrder)
    /\ mGlobalStats' = EmptyMap
    /\ tally' = EmptyMap
    /\ UNCHANGED mAppStats

----------------------------------------------------------------------------

\* The threads that call into GpuStats.
Threads == {"t1", "t2"}

\* mLock when no thread holds it.
Free == "free"

\* The frame of a thread that is in no call.
NoFrame == [op |-> "none"]

Init ==
    /\ mGlobalStats = EmptyMap
    /\ mAppStats = EmptyMap
    /\ call = [op |-> "none"]
    /\ ret = <<>>
    /\ pre = [g |-> EmptyMap, a |-> EmptyMap]
    /\ tally = EmptyMap
    /\ nCalls = 0
    /\ mLock = Free
    /\ pc = [t \in Threads |-> "idle"]
    /\ frame = [t \in Threads |-> NoFrame]
    /\ acct = [inserted |-> EmptyMap, pulled |-> EmptyMap]

FreshResult == [null |-> FALSE, text |-> <<>>]

\* insert with any arguments.
InsertAny ==
    /\ nCalls < MaxCalls
    /\ \E ident \in DriverIdents, code \in VersionCodes, app \in AppNames,
          driver \in Drivers, loaded \in BOOLEAN, time \in LoadingTimes :
          Insert(ident, code, app, driver, loaded, time)

\* dump with any set of flags into a fresh string.
DumpFlagSet ==
    /\ nCalls < MaxCalls
    /\ \E args \in FlagSetVectors : Dump(args, FreshResult)

\* pullGlobalStats into an empty vector.
Pull ==
    /\ nCalls < MaxCalls
    /\ PullGlobalStats(<<>>)

Next == InsertAny \/ DumpFlagSet \/ Pull

Spec == Init /\ [][Next]_vars

----------------------------------------------------------------------------
(* Any arguments to dump and pullGlobalStats, over tables of up to two      *)
(* records each.                                                            *)

DumpIdent == [driverPackageName |-> "drv", driverVersionName |-> "1.0", driverBuildTime |-> 1000]

DumpDrivers == {"GL", "VULKAN", "ANGLE"}

\* insert of one app under either version code.
InsertFew ==
    /\ nCalls < MaxDumpCalls
    /\ \E code \in VersionCodes, driver \in DumpDrivers :
          Insert(DumpIdent, code, "a", driver, TRUE, 12)

\* dump with any argument vector and any result pointer.
DumpAny ==
    /\ nCalls < MaxDumpCalls
    /\ \E args \in ArgVectors, result \in ResultArgs : Dump(args, result)

\* pullGlobalStats into an empty vector or one that holds a record.
PullAny ==
    /\ nCalls < MaxDumpCalls
    /\ \E outStats \in OutVectors : PullGlobalStats(outStats)

NextDump == InsertFew \/ DumpAny \/ PullAny

SpecDump == Init /\ [][NextDump]_vars

----------------------------------------------------------------------------
(* Enough calls, and enough app names under one driverVersionCode, to fill  *)
(* the app table and go on.                                                 *)

CapCalls == MAX_NUM_APP_RECORDS + 1

CapApps == {"a", "a1", "b"}

\* insert of any of the apps under one version code.
InsertCap ==
    /\ nCalls < CapCalls
    /\ \E app \in CapApps, driver \in DumpDrivers, loaded \in BOOLEAN,
          time \in LoadingTimes :
          Insert(DumpIdent, 2, app, driver, loaded, time)

DumpCap ==
    /\ nCalls < CapCalls
    /\ \E args \in FlagSetVectors : Dump(args, FreshResult)

PullCap ==
    /\ nCalls < CapCalls
    /\ PullGlobalStats(<<>>)

NextCap == InsertCap \/ DumpCap \/ PullCap

SpecCap == Init /\ [][NextCap]_vars

----------------------------------------------------------------------------
(* SpecThreads: the threads of Threads call insert, dump and               *)
(* pullGlobalStats at the same time.  A call is a sequence of steps: it    *)
(* starts, waits for mLock at its std::lock_guard, runs its statements and *)
(* returns, the lock_guard's destructor unlocking mLock on every return.   *)
(* nCalls counts the inserts started, at most CapCalls; dumps and pulls    *)
(* are not limited.                                                        *)

ThreadApps == {"a", "b"}

ThreadArgs == { <<>>, <<"--clear">> }

ThreadResults == { NullResult, FreshResult }

ZeroCount == [gl |-> 0, vk |-> 0]

CountOf(m, c) == IF c \in DOMAIN m THEN m[c] ELSE ZeroCount

\* acct.inserted after a supported insert for driverVersionCode returned.
Inserted(m, driverVersionCode, driver) ==
    Put(m, driverVersionCode,
        IF IsGL(driver)
        THEN [CountOf(m, driverVersionCode) EXCEPT !.gl = @ + 1]
        ELSE [CountOf(m, driverVersionCode) EXCEPT !.vk = @ + 1])

RECURSIVE Pulled(_, _)
\* acct.pulled after a pull returned the records of outStats.
Pulled(m, outStats) ==
    IF outStats = <<>> THEN m
    ELSE LET r == Head(outStats)
             c == r.driverVersionCode
         IN  Pulled(Put(m, c, [gl |-> CountOf(m, c).gl + r.glLoadingCount,
                               vk |-> CountOf(m, c).vk + r.vkLoadingCount]),
                    Tail(outStats))

\* Thread t is at statement from and goes to statement to.
Goto(t, from, to) == pc[t] = from /\ pc' = [pc EXCEPT ![t] = to]

\* Thread t returns from its call: its frame is gone.
Return(t, from) == Goto(t, from, "idle") /\ frame' = [frame EXCEPT ![t] = NoFrame]

\* ~std::lock_guard: mLock.unlock().
Unlock == mLock' = Free

\* Line 67: thread t calls insert.
CallInsert(t) ==
    /\ nCalls < CapCalls
    /\ Goto(t, "idle", "insert_lock")
    /\ \E appPackageName \in ThreadApps, driver \in DumpDrivers :
          frame' = [frame EXCEPT ![t] =
                      [ op                |-> "insert",
                        driverPackageName |-> DumpIdent.driverPackageName,
                        driverVersionName |-> DumpIdent.driverVersionName,
                        driverVersionCode |-> 2,
                        driverBuildTime   |-> DumpIdent.driverBuildTime,
                        appPackageName    |-> appPackageName,
                        driver            |-> driver,
                        isDriverLoaded    |-> TRUE,
                        driverLoadingTime |-> 12 ]]
    /\ nCalls' = nCalls + 1
    /\ UNCHANGED <<mGlobalStats, mAppStats, call, ret, pre, tally, mLock, acct>>

\* The null check of dump with the check left out.
isNull_never(result) == FALSE

\* Line 121: !result.
isNull(result) == result.null

\* Lines 118-124: thread t calls dump; with no string to write to it is on
\* its way out (ALOGE, return) before the lock_guard of line 126.
CallDump(t) ==
    /\ \E args \in ThreadArgs, result \in ThreadResults :
          /\ frame' = [frame EXCEPT ![t] = [op |-> "dump", args |-> args, result |-> result]]
          /\ Goto(t, "idle", IF isNull(result) THEN "dump_null" ELSE "dump_lock")
    /\ UNCHANGED <<mGlobalStats, mAppStats, call, ret, pre, tally, nCalls, mLock, acct>>

\* Line 187: thread t calls pullGlobalStats.
CallPull(t) ==
    /\ Goto(t, "idle", "pull_lock")
    /\ \E outStats \in OutVectors :
          frame' = [frame EXCEPT ![t] = [op |-> "pullGlobalStats", outStats |-> outStats]]
    /\ UNCHANGED <<mGlobalStats, mAppStats, call, ret, pre, tally, nCalls, mLock, acct>>

\* The statement after each lock_guard.
AfterLock ==
    [insert_lock |-> "insert_global", dump_lock |-> "dump_locked", pull_lock |-> "pull_copy"]

\* A lock_guard that does not wait for mLock.
Lock_noWait(t) ==
    /\ pc[t] \in DOMAIN AfterLock
    /\ mLock' = t
    /\ pc' = [pc EXCEPT ![t] = AfterLock[pc[t]]]
    /\ UNCHANGED <<mGlobalStats, mAppStats, call, ret, pre, tally, nCalls, frame, acct>>

\* Lines 73, 126, 190: std::lock_guard<std::mutex> lock(mLock) waits until
\* mLock is free and takes it.
Lock(t) ==
    /\ pc[t] \in DOMAIN AfterLock
    /\ mLock = Free
    /\ mLock' = t
    /\ pc' = [pc EXCEPT ![t] = AfterLock[pc[t]]]
    /\ UNCHANGED <<mGlobalStats, mAppStats, call, ret, pre, tally, nCalls, frame, acct>>

\* The global step returning from an unsupported driver with mLock held.
InsertGlobalStep_keepsLock(t) ==
    LET f  == frame[t]
        gs == insertGlobal(mGlobalStats, f, f.driverVersionCode, f.driver, f.isDriverLoaded)
    IN  /\ pc[t] = "insert_global"
        /\ mGlobalStats' = gs.g
        /\ IF gs.ok
           THEN Goto(t, "insert_global", "insert_app") /\ UNCHANGED <<frame, mLock>>
           ELSE Return(t, "insert_global") /\ UNCHANGED mLock
        /\ UNCHANGED <<mAppStats, call, ret, pre, tally, nCalls, acct>>

\* Lines 86-98: the global step of thread t's insert; an unsupported driver
\* returns from insert here (lines 89, 97).
InsertGlobalStep(t) ==
    LET f  == frame[t]
        gs == insertGlobal(mGlobalStats, f, f.driverVersionCode, f.driver, f.isDriverLoaded)
    IN  /\ pc[t] = "insert_global"
        /\ mGlobalStats' = gs.g
        /\ IF gs.ok
           THEN Goto(t, "insert_global", "insert_app") /\ UNCHANGED <<frame, mLock>>
           ELSE Return(t, "insert_global") /\ Unlock
        /\ UNCHANGED <<mAppStats, call, ret, pre, tally, nCalls, acct>>

\* Lines 100-116: the app step of thread t's insert and its return, from
\* line 102 (table full), line 112 (new record) or line 116.
InsertAppStep(t) ==
    LET f == frame[t]
    IN  /\ pc[t] = "insert_app"
        /\ mAppStats' = insertApp(mAppStats, f.appPackageName, f.driverVersionCode,
                                  f.driver, f.driverLoadingTime)
        /\ acct' = [acct EXCEPT !.inserted = Inserted(@, f.driverVersionCode, f.driver)]
        /\ Return(t, "insert_app")
        /\ Unlock
        /\ UNCHANGED <<mGlobalStats, call, ret, pre, tally, nCalls>>

\* Lines 122-123: dump without a string to write to logs and returns.
DumpNullReturn(t) ==
    /\ Return(t, "dump_null")
    /\ UNCHANGED <<mGlobalStats, mAppStats, call, ret, pre, tally, nCalls, mLock, acct>>

\* Lines 127-170: the body of thread t's dump, which writes the report to
\* the caller's string.
DumpLocked(t) ==
    LET f == frame[t]
    IN  /\ pc[t] = "dump_locked"
        /\ \E gOrder \in IterationOrders(mGlobalStats), aOrder \in IterationOrders(mAppStats) :
              LET d == dumpLocked(f.args, f.result.text, mGlobalStats, gOrder, mAppStats, aOrder)
              IN  /\ frame' = [frame EXCEPT ![t].result.text = d.result]
                  /\ mGlobalStats' = d.g
                  /\ mAppStats' = d.a
        /\ acct' = IF ClearsGlobal(f.args)
                   THEN [inserted |-> EmptyMap, pulled |-> EmptyMap]
                   ELSE acct
        /\ Goto(t, "dump_locked", "dump_return")
        /\ UNCHANGED <<call, ret, pre, tally, nCalls, mLock>>

\* Line 171: thread t's dump returns.
DumpReturn(t) ==
    /\ Return(t, "dump_return")
    /\ Unlock
    /\ UNCHANGED <<mGlobalStats, mAppStats, call, ret, pre, tally, nCalls, acct>>

\* Lines 191-196: thread t's pull copies the records of mGlobalStats.
PullCopy(t) ==
    /\ Goto(t, "pull_copy", "pull_clear")
    /\ \E gOrder \in IterationOrders(mGlobalStats) :
          frame' = [frame EXCEPT ![t].outStats = pullCopy(@, mGlobalStats, gOrder)]
    /\ UNCHANGED <<mGlobalStats, mAppStats, call, ret, pre, tally, nCalls, mLock, acct>>

\* Lines 198-199: thread t's pull clears mGlobalStats and returns.
PullClear(t) ==
    /\ pc[t] = "pull_clear"
    /\ mGlobalStats' = EmptyMap
    /\ acct' = [acct EXCEPT !.pulled = Pulled(@, frame[t].outStats)]
    /\ Return(t, "pull_clear")
    /\ Unlock
    /\ UNCHANGED <<mAppStats, call, ret, pre, tally, nCalls>>

\* A statement of thread t's call that does not wait.
Run(t) ==
    \/ InsertGlobalStep(t)
    \/ InsertAppStep(t)
    \/ DumpNullReturn(t)
    \/ DumpLocked(t)
    \/ DumpReturn(t)
    \/ PullCopy(t)
    \/ PullClear(t)

ThreadCallsInsert == \E t \in Threads : CallInsert(t)
ThreadCallsDump == \E t \in Threads : CallDump(t)
ThreadCallsPull == \E t \in Threads : CallPull(t)
ThreadLocks == \E t \in Threads : Lock(t)
ThreadInsertsGlobal == \E t \in Threads : InsertGlobalStep(t)
ThreadInsertsApp == \E t \in Threads : InsertAppStep(t)
ThreadDumpsNull == \E t \in Threads : DumpNullReturn(t)
ThreadDumps == \E t \in Threads : DumpLocked(t)
ThreadDumpReturns == \E t \in Threads : DumpReturn(t)
ThreadPullCopies == \E t \in Threads : PullCopy(t)
ThreadPullClears == \E t \in Threads : PullClear(t)

NextThreads ==
    \/ ThreadCallsInsert
    \/ ThreadCallsDump
    \/ ThreadCallsPull
    \/ ThreadLocks
    \/ ThreadInsertsGlobal
    \/ ThreadInsertsApp
    \/ ThreadDumpsNull
    \/ ThreadDumps
    \/ ThreadDumpReturns
    \/ ThreadPullCopies
    \/ ThreadPullClears

SpecThreads == Init /\ [][NextThreads]_vars

\* Fair scheduling: a thread that can run a statement of its call runs it,
\* and a thread waiting at a lock_guard gets mLock if mLock is free again
\* and again.
SpecFair == Init /\ [][NextThreads]_vars /\ \A t \in Threads : WF_vars(Run(t)) /\ SF_vars(Lock(t))

----------------------------------------------------------------------------
(* Properties. *)

SupportedDrivers == {"GL", "GL_UPDATED", "VULKAN", "VULKAN_UPDATED"}

\* The last call was an insert with a supported driver.
SupportedInsert == call.op = "insert" /\ call.driver \in SupportedDrivers

Size(m) == Cardinality(DOMAIN m)

AppNamesIn(a) == { a[k].appPackageName : k \in DOMAIN a }

\* The keys of the app records of table a that belong to (app, version).
RecordsOf(a, appPackageName, driverVersionCode) ==
    { k \in DOMAIN a : /\ a[k].appPackageName = appPackageName
                       /\ a[k].driverVersionCode = driverVersionCode }

\* The last call was the insert of one more new app name, under the version
\* code of all the records present, into a table that capacity-many such
\* inserts had filled.
C1_OneTooMany ==
    /\ SupportedInsert
    /\ nCalls = MAX_NUM_APP_RECORDS + 1
    /\ Size(pre.a) = MAX_NUM_APP_RECORDS
    /\ call.appPackageName \notin AppNamesIn(pre.a)
    /\ \A k \in DOMAIN pre.a : pre.a[k].driverVersionCode = call.driverVersionCode

\* C1: in every reachable state the app table holds at most
\* MAX_NUM_APP_RECORDS records; after capacity + 1 supported inserts of new
\* app names under one version code it holds exactly capacity records and
\* none for the last app.
C1_AppTableBounded ==
    /\ Size(mAppStats) <= MAX_NUM_APP_RECORDS
    /\ C1_OneTooMany =>
          /\ Size(mAppStats) = MAX_NUM_APP_RECORDS
          /\ call.appPackageName \notin AppNamesIn(mAppStats)

C1_Witness == C1_OneTooMany /\ Size(mAppStats) = MAX_NUM_APP_RECORDS

\* C2: with the app table at capacity, a supported insert whose
\* (appPackageName, driverVersionCode) already has an app record appends its
\* loading time to that record.
C2_ExistingKeyAppendsAtCapacity ==
    (SupportedInsert /\ Size(pre.a) >= MAX_NUM_APP_RECORDS) =>
        \A k \in RecordsOf(pre.a, call.appPackageName, call.driverVersionCode) :
            /\ k \in DOMAIN mAppStats
            /\ IF call.driver \in {"GL", "GL_UPDATED"}
               THEN mAppStats[k].glDriverLoadingTime =
                        Append(pre.a[k].glDriverLoadingTime, call.driverLoadingTime)
               ELSE mAppStats[k].vkDriverLoadingTime =
                        Append(pre.a[k].vkDriverLoadingTime, call.driverLoadingTime)

\* C3: an insert whose driver is none of GL, GL_UPDATED, VULKAN and
\* VULKAN_UPDATED changes neither table.
C3_UnsupportedInsertIsNoOp ==
    [][ (call'.op = "insert" /\ call'.driver \notin SupportedDrivers) =>
            (mGlobalStats' = mGlobalStats /\ mAppStats' = mAppStats) ]_vars

\* An unsupported insert for a version code that has a global record.
C3_Witness ==
    /\ call.op = "insert"
    /\ call.driver = "ANGLE"
    /\ call.driverVersionCode \in DOMAIN pre.g
    /\ mGlobalStats = pre.g
    /\ mAppStats = pre.a

\* C4: the counters of the global record of each driverVersionCode equal the
\* numbers of inserts made for that code since the global table was last
\* emptied: GL-family and Vulkan-family inserts, and those among them with
\* isDriverLoaded false.
C4_CountersMatchInserts ==
    /\ DOMAIN mGlobalStats = DOMAIN tally
    /\ \A c \in DOMAIN mGlobalStats :
          /\ mGlobalStats[c].glLoadingCount = tally[c].gl
          /\ mGlobalStats[c].glLoadingFailureCount = tally[c].glFail
          /\ mGlobalStats[c].vkLoadingCount = tally[c].vk
          /\ mGlobalStats[c].vkLoadingFailureCount = tally[c].vkFail

\* A failed load counted by an insert that the full app table dropped.
C4_Witness ==
    /\ SupportedInsert
    /\ ~call.isDriverLoaded
    /\ Size(pre.a) >= MAX_NUM_APP_RECORDS
    /\ mAppStats = pre.a
    /\ LET r == mGlobalStats[call.driverVersionCode]
       IN  /\ r.glLoadingCount + r.vkLoadingCount = MAX_NUM_APP_RECORDS + 1
           /\ r.glLoadingFailureCount + r.vkLoadingFailureCount >= 1

\* The reports a walk over table g can give: one line per record, in any
\* iteration order.
GlobalLines(g) ==
    { [i \in 1..Len(o) |-> GlobalInfoToString(g[o[i]])] : o \in IterationOrders(g) }

AppLines(a) ==
    { [i \in 1..Len(o) |-> AppInfoToString(a[o[i]])] : o \in IterationOrders(a) }

\* The step is a dump that got a string to write to.
DumpStep == call'.op = "dump" /\ ~call'.result.null

HasFlag(args, f) == f \in Range(args)

\* C5: pullGlobalStats returns exactly the global records present when it is
\* called, one element each and nothing of the vector's old content, and
\* leaves the global table empty; a pull right after a pull returns an empty
\* sequence.
C5_PullReturnsAllAndEmpties ==
    [][ call'.op = "pullGlobalStats" =>
           /\ Len(ret') = Size(mGlobalStats)
           /\ Range(ret') = { mGlobalStats[c] : c \in DOMAIN mGlobalStats }
           /\ mGlobalStats' = EmptyMap
           /\ call.op = "pullGlobalStats" => ret' = <<>> ]_vars

\* A pull of two records into a vector that held an old one.
C5_Witness ==
    /\ call.op = "pullGlobalStats"
    /\ call.outStats # <<>>
    /\ Size(pre.g) = 2
    /\ Len(ret) = 2
    /\ mGlobalStats = EmptyMap

\* C6: pullGlobalStats leaves the app table as it was.
C6_PullKeepsAppTable ==
    [][ call'.op = "pullGlobalStats" => mAppStats' = mAppStats ]_vars

\* A pull that emptied the global table beside a non-empty app table.
C6_Witness ==
    /\ call.op = "pullGlobalStats"
    /\ pre.g # EmptyMap
    /\ mAppStats # EmptyMap
    /\ mAppStats = pre.a

ClearOnly(args) ==
    HasFlag(args, "--clear") /\ ~HasFlag(args, "--global") /\ ~HasFlag(args, "--app")

\* C7 as claimed: dump with --clear and no selector reports the records of
\* both tables as they were and leaves both tables empty.
C7_ClearOnlyReportsBoth ==
    [][ (DumpStep /\ ClearOnly(call'.args)) =>
           /\ \A c \in DOMAIN mGlobalStats :
                 GlobalInfoToString(mGlobalStats[c]) \in Range(ret')
           /\ \A k \in DOMAIN mAppStats :
                 AppInfoToString(mAppStats[k]) \in Range(ret')
           /\ mGlobalStats' = EmptyMap
           /\ mAppStats' = EmptyMap ]_vars

\* C7: dump with --clear and no selector adds nothing to the report and
\* leaves both tables empty.
C7_ClearOnlyReportsNothing ==
    [][ (DumpStep /\ ClearOnly(call'.args)) =>
           /\ ret' = call'.result.text
           /\ mGlobalStats' = EmptyMap
           /\ mAppStats' = EmptyMap ]_vars

\* A dump with --clear alone over two non-empty tables.
C7_Witness ==
    /\ call.op = "dump"
    /\ ~call.result.null
    /\ ClearOnly(call.args)
    /\ pre.g # EmptyMap
    /\ pre.a # EmptyMap
    /\ ret = call.result.text
    /\ mGlobalStats = EmptyMap
    /\ mAppStats = EmptyMap

\* C8: dump with --clear and a selector reports the selected tables as they
\* were, the global section first, empties exactly those tables and leaves
\* the other as it was.
C8_ClearSelected ==
    [][ (/\ DumpStep
         /\ HasFlag(call'.args, "--clear")
         /\ HasFlag(call'.args, "--global") \/ HasFlag(call'.args, "--app")) =>
           LET dumpGlobal == HasFlag(call'.args, "--global")
               dumpApp    == HasFlag(call'.args, "--app")
           IN  /\ mGlobalStats' = IF dumpGlobal THEN EmptyMap ELSE mGlobalStats
               /\ mAppStats' = IF dumpApp THEN EmptyMap ELSE mAppStats
               /\ \E gl \in IF dumpGlobal THEN GlobalLines(mGlobalStats) ELSE {<<>>},
                     al \in IF dumpApp THEN AppLines(mAppStats) ELSE {<<>>} :
                     ret' = call'.result.text \o gl \o al ]_vars

\* dump --app --clear over two app records beside a non-empty global table.
C8_Witness ==
    /\ call.op = "dump"
    /\ ~call.result.null
    /\ Range(call.args) = {"--app", "--clear"}
    /\ Size(pre.a) = 2
    /\ pre.g # EmptyMap
    /\ mGlobalStats = pre.g
    /\ mAppStats = EmptyMap
    /\ Len(ret) = Len(call.result.text) + 2

\* C9: dump without --clear reports one line per record of the selected
\* tables, the global section before the app section, both tables when no
\* selector is given; the report depends on the set of flags only.
C9_ReportBySelector ==
    [][ (DumpStep /\ ~HasFlag(call'.args, "--clear")) =>
           LET flags      == Range(call'.args)
               none       == "--global" \notin flags /\ "--app" \notin flags
               withGlobal == "--global" \in flags \/ none
               withApp    == "--app" \in flags \/ none
           IN  \E gl \in IF withGlobal THEN GlobalLines(mGlobalStats) ELSE {<<>>},
                  al \in IF withApp THEN AppLines(mAppStats) ELSE {<<>>} :
                  ret' = call'.result.text \o gl \o al ]_vars

\* dump --app --global over two records in each table: the global lines come
\* first although --app does.
C9_Witness ==
    /\ call.op = "dump"
    /\ ~call.result.null
    /\ call.args = <<"--app", "--global">>
    /\ Size(pre.g) = 2
    /\ Size(pre.a) = 2
    /\ Len(ret) = Len(call.result.text) + 4
    /\ ret[Len(call.result.text) + 1][1] = "global"
    /\ ret[Len(ret)][1] = "app"

\* C10: a supported insert creates or appends to no app record but the one
\* whose appPackageName and driverVersionCode are those of the insert.
C10_InsertTouchesOwnRecordOnly ==
    [][ (call'.op = "insert" /\ call'.driver \in SupportedDrivers) =>
           \A k \in DOMAIN mAppStats' :
              (k \notin DOMAIN mAppStats \/ mAppStats'[k] # mAppStats[k]) =>
                 /\ mAppStats'[k].appPackageName = call'.appPackageName
                 /\ mAppStats'[k].driverVersionCode = call'.driverVersionCode ]_vars

\* C13: in every global record the failure counts do not exceed the loading
\* counts.
C13_FailuresWithinLoads ==
    \A c \in DOMAIN mGlobalStats :
       /\ mGlobalStats[c].glLoadingFailureCount <= mGlobalStats[c].glLoadingCount
       /\ mGlobalStats[c].vkLoadingFailureCount <= mGlobalStats[c].vkLoadingCount

\* A record that counts failed and successful loads of both families' worth.
C13_Witness ==
    \E c \in DOMAIN mGlobalStats :
       /\ mGlobalStats[c].glLoadingFailureCount = 1
       /\ mGlobalStats[c].glLoadingCount = 2
       /\ mGlobalStats[c].vkLoadingFailureCount = 1
       /\ mGlobalStats[c].vkLoadingCount = 1

IsPrefix(s, t) == Len(s) <= Len(t) /\ \A i \in 1..Len(s) : s[i] = t[i]

\* The step neither removes a global record nor lowers one of its counters.
GlobalKept ==
    \A c \in DOMAIN mGlobalStats :
       /\ c \in DOMAIN mGlobalStats'
       /\ mGlobalStats'[c].glLoadingCount >= mGlobalStats[c].glLoadingCount
       /\ mGlobalStats'[c].glLoadingFailureCount >= mGlobalStats[c].glLoadingFailureCount
       /\ mGlobalStats'[c].vkLoadingCount >= mGlobalStats[c].vkLoadingCount
       /\ mGlobalStats'[c].vkLoadingFailureCount >= mGlobalStats[c].vkLoadingFailureCount

\* The step neither removes an app record nor shortens or reorders its
\* samples.
AppKept ==
    \A k \in DOMAIN mAppStats :
       /\ k \in DOMAIN mAppStats'
       /\ IsPrefix(mAppStats[k].glDriverLoadingTime, mAppStats'[k].glDriverLoadingTime)
       /\ IsPrefix(mAppStats[k].vkDriverLoadingTime, mAppStats'[k].vkDriverLoadingTime)

\* The step is a dump that clears: it has a string to write to and --clear
\* among its flags.
ClearingDumpStep == DumpStep /\ HasFlag(call'.args, "--clear")

\* C14: insert and dump without --clear remove no record, lower no counter
\* and shorten or reorder no sample sequence; a step that does is a dump with
\* --clear or, for the global table, a pullGlobalStats.
C14_OnlyClearsRemove ==
    [][ /\ (call'.op = "insert" \/ (call'.op = "dump" /\ ~ClearingDumpStep)) =>
              (GlobalKept /\ AppKept)
        /\ ~GlobalKept => (ClearingDumpStep \/ call'.op = "pullGlobalStats")
        /\ ~AppKept => ClearingDumpStep ]_vars

\* An insert that appended to a record that was there, with a counter raised.
C14_Witness ==
    /\ SupportedInsert
    /\ \E k \in DOMAIN pre.a :
          Len(mAppStats[k].glDriverLoadingTime) + Len(mAppStats[k].vkDriverLoadingTime) = 2
    /\ \E c \in DOMAIN pre.g :
          mGlobalStats[c].glLoadingCount + mGlobalStats[c].vkLoadingCount = 2

\* C15: with the app table at capacity, a supported insert for an (app,
\* version) that has no app record leaves the app table as it was, and the
\* global record of its driverVersionCode is created or counts one more.
C15_DroppedInsertStillCounted ==
    [][ (/\ call'.op = "insert"
         /\ call'.driver \in SupportedDrivers
         /\ Size(mAppStats) >= MAX_NUM_APP_RECORDS
         /\ RecordsOf(mAppStats, call'.appPackageName, call'.driverVersionCode) = {}) =>
           LET c   == call'.driverVersionCode
               old == IF c \in DOMAIN mGlobalStats
                      THEN mGlobalStats[c].glLoadingCount + mGlobalStats[c].vkLoadingCount
                      ELSE 0
           IN  /\ mAppStats' = mAppStats
               /\ c \in DOMAIN mGlobalStats'
               /\ mGlobalStats'[c].glLoadingCount + mGlobalStats'[c].vkLoadingCount = old + 1
       ]_vars

\* The insert of a third app into the full table, dropped there and counted.
C15_Witness ==
    /\ SupportedInsert
    /\ Size(pre.a) = MAX_NUM_APP_RECORDS
    /\ call.appPackageName \notin AppNamesIn(pre.a)
    /\ mAppStats = pre.a
    /\ LET r == mGlobalStats[call.driverVersionCode]
       IN  r.glLoadingCount + r.vkLoadingCount = MAX_NUM_APP_RECORDS + 1

Identity(r) == <<r.driverPackageName, r.driverVersionName, r.driverBuildTime>>

\* C16: a global record keeps the driverPackageName, driverVersionName and
\* driverBuildTime of the insert that created it for as long as it is in the
\* table, and its driverVersionCode is the key it is stored under.
C16_FirstWriterWins ==
    [][ /\ \A c \in DOMAIN mGlobalStats' :
              /\ mGlobalStats'[c].driverVersionCode = c
              /\ IF c \in DOMAIN mGlobalStats
                 THEN Identity(mGlobalStats'[c]) = Identity(mGlobalStats[c])
                 ELSE /\ call'.op = "insert"
                      /\ call'.driverVersionCode = c
                      /\ Identity(mGlobalStats'[c]) = Identity(call')
       ]_vars

\* A second insert for a version code under another driver identity.
C16_Witness ==
    /\ SupportedInsert
    /\ call.driverVersionCode \in DOMAIN pre.g
    /\ Identity(call) # Identity(pre.g[call.driverVersionCode])
    /\ Identity(mGlobalStats[call.driverVersionCode]) = Identity(pre.g[call.driverVersionCode])
    /\ mGlobalStats[call.driverVersionCode] # pre.g[call.driverVersionCode]

\* The samples of (app, version) in table a: those of its record, none when
\* it has no record.
SamplesOf(a, appPackageName, driverVersionCode) ==
    LET ks == RecordsOf(a, appPackageName, driverVersionCode)
    IN  IF ks = {}
        THEN [gl |-> <<>>, vk |-> <<>>]
        ELSE LET k == CHOOSE x \in ks : TRUE
             IN  [gl |-> a[k].glDriverLoadingTime, vk |-> a[k].vkDriverLoadingTime]

\* C17: while the app table is below capacity, a supported insert appends
\* its driverLoadingTime, loaded or not, to the end of the GL sequence (GL
\* family) or of the Vulkan sequence (Vulkan family) of the record of its
\* (app, version), and to no other sequence; so each sequence holds the
\* loading times of the matching inserts in call order.
C17_SamplesInCallOrder ==
    [][ (/\ call'.op = "insert"
         /\ call'.driver \in SupportedDrivers
         /\ Size(mAppStats) < MAX_NUM_APP_RECORDS) =>
           LET app  == call'.appPackageName
               code == call'.driverVersionCode
               old  == SamplesOf(mAppStats, app, code)
               new  == SamplesOf(mAppStats', app, code)
               gl   == call'.driver \in {"GL", "GL_UPDATED"}
           IN  /\ Cardinality(RecordsOf(mAppStats', app, code)) = 1
               /\ new.gl = IF gl THEN Append(old.gl, call'.driverLoadingTime) ELSE old.gl
               /\ new.vk = IF gl THEN old.vk ELSE Append(old.vk, call'.driverLoadingTime)
               /\ \A k \in DOMAIN mAppStats :
                     k \notin RecordsOf(mAppStats, app, code) => mAppStats'[k] = mAppStats[k]
       ]_vars

\* C19: every global record counts at least one load and every app record
\* holds at least one sample.
C19_NoEmptyRecord ==
    /\ \A c \in DOMAIN mGlobalStats :
          mGlobalStats[c].glLoadingCount + mGlobalStats[c].vkLoadingCount >= 1
    /\ \A k \in DOMAIN mAppStats :
          Len(mAppStats[k].glDriverLoadingTime) + Len(mAppStats[k].vkDriverLoadingTime) >= 1

\* An insert that created a global record and an app record.
C19_Witness ==
    /\ SupportedInsert
    /\ call.driverVersionCode \notin DOMAIN pre.g
    /\ call.driverVersionCode \in DOMAIN mGlobalStats
    /\ Size(mAppStats) = Size(pre.a) + 1

Total(m, c) == CountOf(m, c).gl + CountOf(m, c).vk

\* The loads the global table counts for driverVersionCode c.
Stored(c) ==
    IF c \in DOMAIN mGlobalStats
    THEN [gl |-> mGlobalStats[c].glLoadingCount, vk |-> mGlobalStats[c].vkLoadingCount]
    ELSE ZeroCount

\* C11: with insert and pullGlobalStats interleaved by several threads and no
\* clearing dump since, whenever no call is inside its critical section the
\* counts handed out by the pulls that returned plus the counts in the global
\* table equal, per driverVersionCode and driver family, the number of
\* supported inserts that returned.
C11_NoInsertLostOrDoubled ==
    mLock = Free =>
       \A c \in DOMAIN mGlobalStats \cup DOMAIN acct.inserted \cup DOMAIN acct.pulled :
          /\ CountOf(acct.pulled, c).gl + Stored(c).gl = CountOf(acct.inserted, c).gl
          /\ CountOf(acct.pulled, c).vk + Stored(c).vk = CountOf(acct.inserted, c).vk

\* Three inserts returned, pulls handed out some of their counts, the table
\* holds the others, and a thread is waiting for the next pull.
C11_Witness ==
    /\ mLock = Free
    /\ Total(acct.inserted, 2) = CapCalls
    /\ Total(acct.pulled, 2) >= 1
    /\ Stored(2).gl + Stored(2).vk >= 1
    /\ \E t \in Threads : pc[t] = "pull_lock"

\* Thread t is in a dump that was given no string to write to.
InNullDump(t) == frame[t].op = "dump" /\ frame[t].result.null

\* C12: a dump called without a string to write to does no work: its steps
\* leave both tables as they were, --clear among its flags or not, no report
\* text is written, it never takes mLock and it returns.
C12_NullDumpDoesNothing ==
    [][ \A t \in Threads :
           (InNullDump(t) /\ pc'[t] # pc[t]) =>
              /\ mGlobalStats' = mGlobalStats
              /\ mAppStats' = mAppStats
              /\ ret' = ret
              /\ frame'[t] = NoFrame
              /\ mLock # t
              /\ mLock' = mLock
              /\ pc'[t] = "idle" ]_vars

\* A dump with --clear and no string to write to is past its null check
\* while both tables hold records and another thread holds mLock.
C12_Witness ==
    \E t \in Threads :
       /\ pc[t] = "dump_null"
       /\ HasFlag(frame[t].args, "--clear")
       /\ mGlobalStats # EmptyMap
       /\ mAppStats # EmptyMap
       /\ mLock \in Threads \ {t}

====
